---- MODULE Spec2Model ----
(***************************************************************************)
(* Model of the animated streamflow map client (static/js/main.js): the   *)
(* module-scope snapshot (featureIds, timeSteps, flowData, velocityData,   *)
(* depthData, minFlowValue, maxFlowValue), the playback scheduler          *)
(* (currentTimeIndex, isPlaying, animationFrame and the timers it owns),   *)
(* the load paths (auto load, folder upload, timeline resample) with their *)
(* pending fetches, and the render update.                                 *)
(*                                                                         *)
(* JavaScript runs every handler to completion: one action is one handler  *)
(* or one continuation after an await whose resumption touches state.  A   *)
(* continuation that resumes from an already-resolved promise (the code    *)
(* after `await loadLocalFiles()`) runs as a microtask before any timer or *)
(* input event and is part of the same action.                             *)
(***************************************************************************)
EXTENDS Integers, Sequences, FiniteSets, Bags, TLC

\* ---------------------------------------------------------------- bounds
\* Number of time steps of the un-resampled dataset "A".
BaseLen == 3
\* Largest timeline resample interval the user selects.
MaxInterval == 2
\* Largest number of load requests pending at once.
MaxInflight == 1
\* Largest number of load requests pending at once where requests overlap.
MaxRaceInflight == 2
\* Number of distinct timer handles available to the tick loop.
MaxTimers == 2
\* Largest number of pending trySetupLayers polls.
MaxPolls == 1
\* Largest number of pending deferred renders of applyTimelineResample.
MaxRenderTimers == 1
\* Longest time axis handed to the index restore on its own.
MaxAxisLen == 22
\* Longest identifier string handed to Normalize on its own.
MaxIdLen == 4
\* resampleData: longest series and largest interval tried
MaxSeriesLen == 4
MaxChartInterval == 3

\* ------------------------------------------------------------ JS values
\* The non-finite results of number arithmetic: NaN, Infinity, -Infinity.
NaN == -2000000001
PosInf == 2000000000
NegInf == -2000000000
\* `Infinity` (minFlowValue's reset value): larger than every flow value.
Infinity == 999999
\* A `null` (or missing) matrix entry.
NullEntry == -1
\* animationFrame = null.
NoTimer == 0
\* No index (history variables).
NoIndex == -1

Min2(a, b) == IF a < b THEN a ELSE b
Max2(a, b) == IF a > b THEN a ELSE b
CeilDiv(a, b) == (a + b - 1) \div b

\* Strings that the code inspects are sequences of characters.
WbPrefix == <<"w", "b", "-">>
Undefined == <<"u", "n", "d", "e", "f", "i", "n", "e", "d">>
DigitChars == <<"0", "1", "2", "3", "4", "5", "6", "7", "8", "9">>

\* s.startsWith(p)
StartsWith(s, p) == Len(s) >= Len(p) /\ SubSeq(s, 1, Len(p)) = p

\* String(n) for a non-negative integer n.
RECURSIVE NumToStr(_)
NumToStr(n) ==
  IF n < 10 THEN <<DigitChars[n + 1]>>
  ELSE NumToStr(n \div 10) \o <<DigitChars[(n % 10) + 1]>>

\* A JSON identifier is a string or a number.
StrId(s) == [isNum |-> FALSE, str |-> s, num |-> 0]
NumId(n) == [isNum |-> TRUE, str |-> <<>>, num |-> n]

\* String(featureId)
ToStr(v) == IF v.isNum THEN NumToStr(v.num) ELSE v.str

\* A normalization that prepends the prefix whatever the id starts with.
NormalizeAlways(idStr) == WbPrefix \o idStr

\* idStr.startsWith("wb-") ? idStr : `wb-${idStr}`
Normalize(idStr) == IF StartsWith(idStr, WbPrefix) THEN idStr ELSE WbPrefix \o idStr

\* x || 0 for a numeric-or-null matrix entry.
OrZero(x) == IF x = NullEntry THEN 0 ELSE x

\* ------------------------------------------------- the dataset service
\* The server (not part of the client sources) answers a load request
\* with the parsed geometry ids and the time series, block-averaged over
\* `interval` consecutive steps.
DatasetNames == {"A", "B", "E", "L", "M"}
NoDataset == "none"
NoKey == [ds |-> NoDataset, k |-> 0]
Intervals == 1..MaxInterval
PayloadKeys == [ds : DatasetNames, k : Intervals]

\* Un-resampled flow of dataset "A" at time t (1-based), feature f.
BaseFlowA(t, f) == 12 * ((t + 2 * f) % 3)

Dataset(name) ==
  CASE name = "A" ->
         [geo |-> << <<"1">>, WbPrefix \o <<"2">> >>,
          ids |-> <<StrId(<<"1">>), StrId(WbPrefix \o <<"2">>)>>,
          times |-> [t \in 1..BaseLen |-> t - 1],
          flow |-> [t \in 1..BaseLen |-> [f \in 1..2 |-> BaseFlowA(t, f)]],
          hasVelocity |-> TRUE]
    [] name = "B" ->
         [geo |-> <<WbPrefix \o <<"3">> >>,
          ids |-> <<NumId(3)>>,
          times |-> <<0, 1>>,
          flow |-> << <<24>>, <<NullEntry>> >>,
          hasVelocity |-> FALSE]
    [] name = "E" ->
         \* malformed: empty feature set
         [geo |-> <<>>,
          ids |-> <<>>,
          times |-> <<0, 1>>,
          flow |-> << <<>>, <<>> >>,
          hasVelocity |-> FALSE]
    [] name = "Z" ->
         \* no positive flow value
         [geo |-> <<WbPrefix \o <<"3">> >>,
          ids |-> <<NumId(3)>>,
          times |-> <<0, 1>>,
          flow |-> << <<0>>, <<NullEntry>> >>,
          hasVelocity |-> FALSE]
    [] name = "L" ->
         \* malformed: one more time stamp than matrix rows
         [geo |-> <<WbPrefix \o <<"3">> >>,
          ids |-> <<NumId(3)>>,
          times |-> <<0, 1>>,
          flow |-> << <<36>> >>,
          hasVelocity |-> FALSE]
    [] OTHER ->
         \* malformed: one more matrix row than time stamps
         [geo |-> <<WbPrefix \o <<"3">> >>,
          ids |-> <<NumId(3)>>,
          times |-> <<0>>,
          flow |-> << <<12>>, <<36>> >>,
          hasVelocity |-> FALSE]

RECURSIVE SumSeq(_)
SumSeq(s) == IF s = <<>> THEN 0 ELSE Head(s) + SumSeq(Tail(s))

\* Block mean of one column over rows lo..hi (null counted as 0).
BlockMean(rows, f, lo, hi) ==
  SumSeq([i \in 1..(hi - lo + 1) |-> OrZero(rows[lo + i - 1][f])]) \div (hi - lo + 1)

\* The matrix reduced to ceil(n/k) rows of block means.
ServerResample(rows, k) ==
  IF k = 1 THEN rows
  ELSE [j \in 1..CeilDiv(Len(rows), k) |->
          [f \in 1..Len(rows[1]) |->
             BlockMean(rows, f, (j - 1) * k + 1, Min2(Len(rows), j * k))]]

\* The decoded response body {geopackage, netcdf} for dataset ds at interval k.
Payload(key) ==
  LET d == Dataset(key.ds)
      k == key.k
      flow == ServerResample(d.flow, k)
      nT == CeilDiv(Len(d.times), k)
  IN [geopackage |-> [feature_ids |-> d.geo],
      netcdf |->
        [time_steps |-> [j \in 1..nT |-> d.times[(j - 1) * k + 1]],
         feature_ids |-> d.ids,
         flow |-> flow,
         hasVelocity |-> d.hasVelocity,
         velocity |-> IF d.hasVelocity THEN flow ELSE <<>>,
         hasDepth |-> FALSE,
         depth |-> <<>>,
         num_times |-> Len(flow),
         num_features |-> Len(d.ids),
         resample_hours |-> k]]

\* Structural consistency of a response (spec section 7, malformed load).
WellFormed(p) ==
  /\ Len(p.geopackage.feature_ids) > 0
  /\ Len(p.netcdf.time_steps) = Len(p.netcdf.flow)
  /\ p.netcdf.num_times = Len(p.netcdf.time_steps)

\* ---------------------------------------------------------------- state
VARIABLES
  featureIds,                \* geometry ids the renderer iterates over
  timeSteps,                 \* the time axis
  flowData,                  \* time index -> (feature id -> flow)
  velocityData,
  depthData,
  maxFlowValue,
  minFlowValue,
  currentTimeIndex,
  isPlaying,
  animationFrame,            \* handle of the last scheduled tick, or NoTimer
  pendingTicks,              \* handles of the animate timers not yet fired
  tickDelay,                 \* pending handle -> frameDelay of its animate closure
  speedSelect,               \* speedSelect.value
  timelineResampleInterval,
  timelineInitialized,       \* play button and slider listeners installed
  sliderMax,                 \* timeSlider.max
  layerReady,                \* map loaded and "selected-flowpaths" exists
  pollTimers,                \* pending trySetupLayers retries
  renderTimers,              \* pending deferred renders of a resample
  renderedIndex,             \* time index of the paint last pushed to the map
  inflight,                  \* bag of load requests awaiting their response
  loading,                   \* loading indicator active
  serverDs,                  \* dataset the server currently serves
  \* history (not read by any action)
  src,                       \* response each snapshot component came from
  sought,                    \* index of the last seek since the last play
  last,                      \* the last handler that ran: its name, the
                             \* response it was given, whether it called
                             \* showError, the arguments of its calls of
                             \* updateVisualization, whether it threw
  \* the time series plot
  plotFlowpathId,            \* plotState.flowpathId, or NoFeature
  plotDisplayed,             \* plotContainer.style.display = "block"
  plotted,                   \* the arrays last handed to Plotly, or NoPlot
  hitLayer,                  \* "selected-flowpaths-hit" and its handlers exist
  plotResampleInterval,      \* plotState.resampleInterval
  visibleVariables,          \* plotState.visibleVariables
  \* a pure function applied on its own
  fnArg,                     \* the argument
  fnOut                      \* the results of its successive applications

snapshotVars ==
  <<featureIds, timeSteps, flowData, velocityData, depthData, maxFlowValue,
    minFlowValue>>
playbackVars ==
  <<currentTimeIndex, isPlaying, animationFrame, pendingTicks, tickDelay>>
plotVars == <<plotFlowpathId, plotDisplayed, plotted, hitLayer>>
fnVars == <<fnArg, fnOut>>
plotOptionVars == <<plotResampleInterval, visibleVariables>>
programVars ==
  <<snapshotVars, playbackVars, timelineResampleInterval, timelineInitialized,
    sliderMax, layerReady, pollTimers, renderTimers, renderedIndex, inflight,
    loading, serverDs, src, sought, last, plotVars, speedSelect, plotOptionVars>>
vars == <<programVars, fnVars>>

EmptyObject == <<>>
NoFeature == <<>>
NoPlot == [flow |-> <<>>, velocity |-> <<>>, depth |-> <<>>]
FailKey == [ds |-> "fail", k |-> 0]
NoSrc == [feat |-> NoKey, time |-> NoKey, tables |-> NoKey, range |-> NoKey]

\* ------------------------------------------- processDataAndVisualize
\* flowId of column f (1-based): the normalized NetCDF id.
IdAt(nc, f) ==
  Normalize(IF f <= Len(nc.feature_ids) THEN ToStr(nc.feature_ids[f]) ELSE Undefined)

IdSet(nc) == {IdAt(nc, f) : f \in 1..nc.num_features}

\* The column whose write to table[t][id] is the last one.
LastColumn(nc, id) ==
  CHOOSE f \in 1..nc.num_features :
    /\ IdAt(nc, f) = id
    /\ \A g \in (f + 1)..nc.num_features : IdAt(nc, g) # id

\* array[t] is an array (t is 0-based).
HasRow(m, t) == t + 1 <= Len(m)

\* array[t][f], null when missing.
Cell(m, t, f) ==
  IF HasRow(m, t) /\ f <= Len(m[t + 1]) THEN m[t + 1][f] ELSE NullEntry

\* The matrix entry stored as it came, null included.
FlowValueRaw(nc, t, f) == Cell(nc.flow, t, f)

\* (flowDataArray && flowDataArray[t] && flowDataArray[t][f]) || 0
FlowValueAt(nc, t, f) == OrZero(Cell(nc.flow, t, f))

FlowTable(nc) ==
  [t \in 0..(nc.num_times - 1) |->
     [id \in IdSet(nc) |-> FlowValueAt(nc, t, LastColumn(nc, id))]]

\* velocityData / depthData: a slice per time index when the array is
\* present, filled only when the array has that row.
OptionalTable(nc, present, m) ==
  IF ~present THEN EmptyObject
  ELSE [t \in 0..(nc.num_times - 1) |->
          IF HasRow(m, t)
          THEN [id \in IdSet(nc) |-> OrZero(Cell(m, t, LastColumn(nc, id)))]
          ELSE EmptyObject]

\* The running min/max of the double loop, from cell c on.
RECURSIVE FlowRangeFrom(_, _, _)
FlowRangeFrom(nc, c, acc) ==
  IF c >= nc.num_times * nc.num_features THEN acc
  ELSE LET v == FlowValueAt(nc, c \div nc.num_features, (c % nc.num_features) + 1)
       IN FlowRangeFrom(nc, c + 1,
            [max |-> IF v > acc.max THEN v ELSE acc.max,
             min |-> IF v < acc.min /\ v > 0 THEN v ELSE acc.min])

\* A range that starts from the one of the load before.
RangeCarried == [max |-> maxFlowValue, min |-> minFlowValue]

\* maxFlowValue = 0; minFlowValue = Infinity;
RangeStart == [max |-> 0, min |-> Infinity]

\* The state processDataAndVisualize leaves for response p (delivered for key).
KeepsFeatureIds(p, key) ==
  LET nc == p.netcdf
      range == FlowRangeFrom(nc, 0, RangeStart)
  IN [featureIds |-> featureIds,
      timeSteps |-> nc.time_steps,
      flowData |-> FlowTable(nc),
      velocityData |-> OptionalTable(nc, nc.hasVelocity, nc.velocity),
      depthData |-> OptionalTable(nc, nc.hasDepth, nc.depth),
      maxFlowValue |-> range.max,
      minFlowValue |-> range.min,
      src |-> [feat |-> src.feat, time |-> key, tables |-> key, range |-> key]]

processDataAndVisualize(p, key) ==
  LET nc == p.netcdf
      range == FlowRangeFrom(nc, 0, RangeStart)
  IN [featureIds |-> p.geopackage.feature_ids,
      timeSteps |-> nc.time_steps,
      flowData |-> FlowTable(nc),
      velocityData |-> OptionalTable(nc, nc.hasVelocity, nc.velocity),
      depthData |-> OptionalTable(nc, nc.hasDepth, nc.depth),
      maxFlowValue |-> range.max,
      minFlowValue |-> range.min,
      src |-> [feat |-> key, time |-> key, tables |-> key, range |-> key]]

Install(s) ==
  /\ featureIds' = s.featureIds
  /\ timeSteps' = s.timeSteps
  /\ flowData' = s.flowData
  /\ velocityData' = s.velocityData
  /\ depthData' = s.depthData
  /\ maxFlowValue' = s.maxFlowValue
  /\ minFlowValue' = s.minFlowValue
  /\ src' = s.src

\* setupVisualization's guard: there is something to show.
CanVisualize(s) == Len(s.featureIds) # 0 /\ DOMAIN s.flowData # {}

\* ------------------------------------------------- updateVisualization
\* A render update that does not look for the layer.
RenderWithoutLayerCheck(timeIndex, fd, ready) ==
  IF timeIndex \notin DOMAIN fd THEN renderedIndex ELSE timeIndex

\* The index painted after updateVisualization(timeIndex) on tables fd.
updateVisualization(timeIndex, fd, ready) ==
  IF ~ready THEN renderedIndex
  ELSE IF timeIndex \notin DOMAIN fd THEN renderedIndex
  ELSE timeIndex

\* The index painted after the calls updateVisualization(i), i of calls.
Paint(calls, fd, ready) ==
  IF calls = <<>> THEN renderedIndex
  ELSE updateVisualization(calls[Len(calls)], fd, ready)

\* ---------------------------------------------------- playback helpers
\* The values speedSelect offers, and `frameDelay = 100 / speed`.
BaseDelay == 100
Speeds == {1, 2}
frameDelay(speed) == BaseDelay \div speed

\* An advance that stays on the last index.
AnimateClamps(cur, len) == IF cur + 1 >= len THEN cur ELSE cur + 1

\* animate(): the index after one advance.
animateIndex(cur, len) == IF cur + 1 >= len THEN 0 ELSE cur + 1

FreshTimer == CHOOSE id \in 1..MaxTimers :
                /\ id \notin pendingTicks
                /\ \A j \in 1..MaxTimers : j \notin pendingTicks => id <= j

\* pauseAnimation(): the scheduler state it leaves.
PauseKeepsTimer ==
  [isPlaying |-> FALSE, animationFrame |-> NoTimer, pendingTicks |-> pendingTicks]

pauseAnimation ==
  [isPlaying |-> FALSE,
   animationFrame |-> NoTimer,
   pendingTicks |-> IF animationFrame # NoTimer
                    THEN pendingTicks \ {animationFrame}
                    ELSE pendingTicks]

\* A stop that lowers the flag and leaves the armed timer alone.
StopWithoutClearing ==
  [isPlaying |-> FALSE, animationFrame |-> animationFrame,
   pendingTicks |-> pendingTicks]

\* `if (isPlaying) pauseAnimation();`
PauseIfPlaying ==
  IF isPlaying THEN pauseAnimation
  ELSE [isPlaying |-> isPlaying, animationFrame |-> animationFrame,
        pendingTicks |-> pendingTicks]

SetScheduler(s) ==
  /\ isPlaying' = s.isPlaying
  /\ animationFrame' = s.animationFrame
  /\ pendingTicks' = s.pendingTicks
  /\ tickDelay' = [id \in s.pendingTicks |-> tickDelay[id]]

\* ---- Number arithmetic of the restore: JavaScript Numbers are IEEE-754
\* doubles, a 53-bit significand scaled by a power of two, and every
\* operation rounds its exact result to the nearest double.
MantissaBits == 52

RECURSIVE Pow2(_)
Pow2(k) == IF k = 0 THEN 1 ELSE 2 * Pow2(k - 1)

\* 2^k mod n.
RECURSIVE Pow2Mod(_, _)
Pow2Mod(k, n) == IF k = 0 THEN 1 % n ELSE (2 * Pow2Mod(k - 1, n)) % n

\* The least c >= from with i * 2^c >= n.
RECURSIVE LeastShift(_, _, _)
LeastShift(i, n, from) ==
  IF i * Pow2(from) >= n THEN from ELSE LeastShift(i, n, from + 1)

\* The least a >= from with j <= 2^(a + 1), from >= -1.
RECURSIVE BinaryOrder(_, _)
BinaryOrder(j, from) ==
  IF j <= Pow2(from + 1) THEN from ELSE BinaryOrder(j, from + 1)

\* `currentTimeIndex / timeSteps.length` for 0 < pIdx < pLen: the double
\* nearest the quotient, M / 2^e with e = MantissaBits + shift and
\* M * pLen = pIdx * 2^e + err, so err / (pLen * 2^e) is its rounding error.
\* (No tie arises: pLen is far below 2^MantissaBits.)
currentProgress(pIdx, pLen) ==
  LET c == LeastShift(pIdx, pLen, 0)
      x == (pIdx * Pow2Mod(MantissaBits + c, pLen)) % pLen
  IN [shift |-> c, err |-> IF 2 * x < pLen THEN 0 - x ELSE pLen - x]

\* Math.floor(currentProgress * timeSteps.length) for 0 < pIdx < pLen: the
\* exact product is pIdx * len / pLen + err * len / (pLen * 2^e), rounded to
\* the nearest double (ties to the even significand) and floored. Below an
\* integer J with 2^a < J <= 2^(a+1) the doubles are 2^(a - MantissaBits)
\* apart, so a product short of J by more than half of that rounds to the
\* double before J.
FloorOfProduct(q, pIdx, pLen, len) ==
  LET t == pIdx * len
      J == t \div pLen
      a == BinaryOrder(J, -1)
  IN IF t % pLen = 0 /\ q.err < 0
        /\ 2 * (0 - q.err) * len > pLen * Pow2(a + q.shift)
     THEN J - 1
     ELSE J

\* floor(currentProgress * timeSteps.length), clamped to the new axis, with
\* currentProgress = pIdx / pLen taken when the resample was requested. An
\* index at or past pLen gives a progress of at least 1 and a product of at
\* least len, which the clamp brings to len - 1.
RestoreIndex(pIdx, pLen, len) ==
  LET floored ==
        IF pLen = 0 \/ pIdx = 0 THEN 0
        ELSE IF pIdx >= pLen THEN len
        ELSE FloorOfProduct(currentProgress(pIdx, pLen), pIdx, pLen, len)
  IN Max2(0, Min2(floored, len - 1))

\* ------------------------------------------------------------- readers
\* slice[id] || 0, for a slice that exists.
Lookup(slice, id) == IF id \in DOMAIN slice THEN OrZero(slice[id]) ELSE 0

\* updateHoverPopupContent: currentData?.[hoveredFeatureId] || 0 on each table.
HoverRead(t, id, fd, vd, dd) ==
  [flow |-> IF t \in DOMAIN fd THEN Lookup(fd[t], id) ELSE 0,
   velocity |-> IF t \in DOMAIN vd THEN Lookup(vd[t], id) ELSE 0,
   depth |-> IF t \in DOMAIN dd THEN Lookup(dd[t], id) ELSE 0]

\* updateVisualization's read for feature id at a time index it paints.
RenderRead(t, id, fd) == Lookup(fd[t], id)

\* The values pushed for the time indexes below len at which table tb has
\* a slice (the slices of a table are 0..n-1 for some n).
PushedValues(tb, id, len) ==
  LET n == Cardinality({t \in 0..(len - 1) : t \in DOMAIN tb})
  IN [i \in 1..n |-> Lookup(tb[i - 1], id)]

\* ------------------------------------------------ resampleData
\* `for (let i = interval; ...)`: the loop entered at the second block,
\* whatever the interval.
StartAtSecondBlock(data, interval) ==
  [pc |-> "loop", i |-> interval, resampled |-> <<>>]

\* `if (interval === 1) return data; const resampled = []; let i = 0`
resampleStart(data, interval) ==
  IF interval = 1 THEN [pc |-> "done", i |-> 0, resampled |-> data]
  ELSE [pc |-> "loop", i |-> 0, resampled |-> <<>>]

\* A loop that stops before a block shorter than the interval.
FullBlocksOnly(i, interval, len) == i + interval <= len

\* `i < data.length`
loopContinues(i, interval, len) == i < len

\* data.slice(i, i + interval)
slice(data, i, interval) == SubSeq(data, i + 1, Min2(i + interval, Len(data)))

\* A mean taken over the interval, not over the block.
AverageOverInterval(block, interval) == SumSeq(block) \div interval

\* slice.reduce((a, b) => a + b, 0) / slice.length; the quotient is exact
\* where the series hold multiples of the block lengths, as the series
\* resampleData is given on its own do.
average(block, interval) == SumSeq(block) \div Len(block)

\* One evaluation of the loop test and, when it passes, of the body.
resampleStep(data, interval, st) ==
  IF loopContinues(st.i, interval, Len(data))
  THEN [pc |-> "loop", i |-> st.i + interval,
        resampled |-> Append(st.resampled,
                             average(slice(data, st.i, interval), interval))]
  ELSE [st EXCEPT !.pc = "done"]

RECURSIVE ResampleRun(_, _, _)
ResampleRun(data, interval, st) ==
  IF st.pc = "done" THEN st.resampled
  ELSE ResampleRun(data, interval, resampleStep(data, interval, st))

\* resampleData(data, interval) for an interval >= 1.
resampleData(data, interval) ==
  ResampleRun(data, interval, resampleStart(data, interval))

\* updatePlot's loop: flowData[t][flowpathId] is read for every t below
\* timeSteps.length, and is a TypeError when flowData has no slice t.
updatePlot(id, ts, fd, vd, dd) ==
  IF \E t \in 0..(Len(ts) - 1) : t \notin DOMAIN fd
  THEN [threw |-> TRUE, series |-> NoPlot]
  ELSE [threw |-> FALSE,
        series |-> [flow |-> PushedValues(fd, id, Len(ts)),
                    velocity |-> PushedValues(vd, id, Len(ts)),
                    depth |-> PushedValues(dd, id, Len(ts))]]

\* The arrays updatePlot hands to its traces: the extracted series resampled
\* at plotState.resampleInterval (which stays 1 where no handler sets it).
plotSeries(series, interval) ==
  [flow |-> resampleData(series.flow, interval),
   velocity |-> IF Len(series.velocity) > 0
                THEN resampleData(series.velocity, interval) ELSE <<>>,
   depth |-> IF Len(series.depth) > 0
             THEN resampleData(series.depth, interval) ELSE <<>>]

\* applyTimelineResample's `if (plotState.flowpathId && display === "block")
\* updatePlot()` inside its try: what is plotted afterwards and whether the
\* catch block ran.
PlotAfterLoad(req, s) ==
  IF req.path = "resample" /\ Len(s.timeSteps) > 0
     /\ plotFlowpathId # NoFeature /\ plotDisplayed
  THEN LET r == updatePlot(plotFlowpathId, s.timeSteps, s.flowData,
                           s.velocityData, s.depthData)
       IN [plotted |-> IF r.threw THEN plotted
                       ELSE plotSeries(r.series, plotResampleInterval),
           error |-> r.threw]
  ELSE [plotted |-> plotted, error |-> FALSE]

\* The snapshot as it stands.
Current ==
  [featureIds |-> featureIds, timeSteps |-> timeSteps, flowData |-> flowData,
   velocityData |-> velocityData, depthData |-> depthData]

Request(path, k, ds, pIdx, pLen) ==
  [path |-> path, k |-> k, ds |-> ds, pIdx |-> pIdx, pLen |-> pLen]

\* What a handler leaves in `last`.
Ran(op) ==
  [op |-> op, resp |-> NoKey, error |-> FALSE, render |-> <<>>, threw |-> FALSE]
Answered(op, key, error) ==
  [op |-> op, resp |-> key, error |-> error, render |-> <<>>, threw |-> FALSE]
\* ... and its calls updateVisualization(i) for the i of calls, in order.
Rendering(rec, calls) == [rec EXCEPT !.render = calls]

\* ----------------------------------------------------------------- Init
InitProgram ==
  /\ featureIds = <<>>
  /\ timeSteps = <<>>
  /\ flowData = EmptyObject
  /\ velocityData = EmptyObject
  /\ depthData = EmptyObject
  /\ maxFlowValue = 0
  /\ minFlowValue = Infinity
  /\ currentTimeIndex = 0
  /\ isPlaying = FALSE
  /\ animationFrame = NoTimer
  /\ pendingTicks = {}
  /\ tickDelay = <<>>
  /\ speedSelect = 1
  /\ timelineResampleInterval = 1
  /\ timelineInitialized = FALSE
  /\ sliderMax = 0
  /\ layerReady = FALSE
  /\ pollTimers = 0
  /\ renderTimers = 0
  /\ renderedIndex = NoIndex
  /\ inflight = EmptyBag
  /\ loading = FALSE
  /\ serverDs \in {NoDataset, "A"}
  /\ src = NoSrc
  /\ sought = NoIndex
  /\ last = Ran("init")
  /\ plotFlowpathId = NoFeature
  /\ plotDisplayed = FALSE
  /\ plotted = NoPlot
  /\ hitLayer = FALSE
  /\ plotResampleInterval = 1
  /\ visibleVariables = [flow |-> TRUE, velocity |-> TRUE, depth |-> TRUE]

Init ==
  /\ InitProgram
  /\ fnArg = <<>>
  /\ fnOut = <<>>

\* -------------------------------------------------------------- actions
\* A request dropped while another is in flight.
FetchUnlessBusy(req) ==
  IF inflight = EmptyBag THEN inflight (+) SetToBag({req}) ELSE inflight

\* fetch(...): the request joins those awaiting their response, whatever
\* is already in flight.
fetch(req) == inflight (+) SetToBag({req})

\* map.on("load"): the style and its layers exist from now on; with
\* config.auto_loaded the handler calls loadLocalFiles().
MapLoad(autoLoaded) ==
  /\ ~layerReady
  /\ layerReady' = TRUE
  /\ IF autoLoaded
     THEN /\ BagCardinality(inflight) < MaxInflight
          /\ inflight' = fetch(Request("local", timelineResampleInterval, NoDataset, 0, 0))
          /\ loading' = TRUE
     ELSE UNCHANGED <<inflight, loading>>
  /\ last' = Ran("mapLoad")
  /\ UNCHANGED <<snapshotVars, playbackVars, timelineResampleInterval,
                 timelineInitialized, sliderMax, pollTimers, renderTimers,
                 renderedIndex, serverDs, src, sought>>
  /\ UNCHANGED <<plotVars, fnVars, speedSelect, plotOptionVars>>

\* promptForFolder -> loadLocalFilesFromBrowser, up to the fetch.
\* At most cap requests are followed at once.
UploadFolderUpTo(ds, cap) ==
  /\ BagCardinality(inflight) < cap
  /\ inflight' = fetch(Request("upload", timelineResampleInterval, ds, 0, 0))
  /\ loading' = TRUE
  /\ last' = Ran("upload")
  /\ UNCHANGED <<snapshotVars, playbackVars, timelineResampleInterval,
                 timelineInitialized, sliderMax, layerReady, pollTimers,
                 renderTimers, renderedIndex, serverDs, src,
                 sought>>
  /\ UNCHANGED <<plotVars, fnVars, speedSelect, plotOptionVars>>

UploadFolder(ds) == UploadFolderUpTo(ds, MaxInflight)

\* loadLocalFilesFromBrowser on a folder without the expected files: the
\* throw is caught, shown, and the loading indicator removed.
UploadRejected ==
  /\ loading' = FALSE
  /\ last' = Answered("uploadRejected", NoKey, TRUE)
  /\ UNCHANGED <<snapshotVars, playbackVars, timelineResampleInterval,
                 timelineInitialized, sliderMax, layerReady, pollTimers,
                 renderTimers, renderedIndex, inflight, serverDs, src, sought>>
  /\ UNCHANGED <<plotVars, fnVars, speedSelect, plotOptionVars>>

\* timelineResampleSelect / timelineCustomResampleInput change handlers and
\* applyTimelineResample up to `await loadLocalFiles()`'s fetch.
\* At most cap requests are followed at once.
RequestResampleUpTo(k, op, cap) ==
  /\ BagCardinality(inflight) < cap
  /\ timelineResampleInterval' = k
  /\ SetScheduler(PauseIfPlaying)
  /\ inflight' = fetch(Request("resample", k, NoDataset,
                       IF Len(timeSteps) > 0 THEN currentTimeIndex ELSE 0,
                       Len(timeSteps)))
  /\ loading' = TRUE
  /\ last' = Ran(op)
  /\ UNCHANGED <<snapshotVars, currentTimeIndex, timelineInitialized, sliderMax,
                 layerReady, pollTimers, renderTimers, renderedIndex, serverDs, src, sought>>
  /\ UNCHANGED <<plotVars, fnVars, speedSelect, plotOptionVars>>

RequestResample(k, op) == RequestResampleUpTo(k, op, MaxInflight)

\* timelineResampleSelect change to the option k.
SetResampleInterval(k) == RequestResample(k, "resampleRequest")

\* The rest of applyTimelineResample once loadLocalFiles() has returned
\* (it returns normally on failure too), on time axis length len.
\* Gives the index, slider maximum and deferred renders it leaves.
AfterLoad(req, len, smax) ==
  IF req.path = "resample" /\ len > 0
  THEN [index |-> RestoreIndex(req.pIdx, req.pLen, len),
        sliderMax |-> len - 1,
        renderTimers |-> renderTimers + 1]
  ELSE [index |-> currentTimeIndex, sliderMax |-> smax, renderTimers |-> renderTimers]

\* The fetch of request req fails or answers non-OK: loadLocalFiles /
\* loadLocalFilesFromBrowser catch, showError, remove the loading indicator.
LoadFailed(req) ==
  LET after == AfterLoad(req, Len(timeSteps), sliderMax)
  IN /\ after.renderTimers <= MaxRenderTimers
     /\ inflight' = inflight (-) SetToBag({req})
     /\ loading' = FALSE
     /\ currentTimeIndex' = after.index
     /\ sliderMax' = after.sliderMax
     /\ renderTimers' = after.renderTimers
     /\ last' = Answered(IF req.path = "resample" THEN "resampleFailed" ELSE "loadFailed",
                         FailKey, TRUE)
     /\ plotted' = PlotAfterLoad(req, Current).plotted
     /\ UNCHANGED <<plotFlowpathId, plotDisplayed, hitLayer, fnVars, speedSelect, plotOptionVars>>
     /\ UNCHANGED <<snapshotVars, isPlaying, animationFrame, pendingTicks, tickDelay,
                    timelineResampleInterval, timelineInitialized, layerReady,
                    pollTimers, renderedIndex, serverDs, src, sought>>

\* The fetch of request req answers OK: processDataAndVisualize,
\* setupVisualization (setupTimeline, trySetupLayers), then the rest of
\* applyTimelineResample on the resample path.
LoadSucceeded(req) ==
  LET key == [ds |-> IF req.path = "upload" THEN req.ds ELSE serverDs, k |-> req.k]
      p == Payload(key)
      s == processDataAndVisualize(p, key)
      show == CanVisualize(s)
      after == AfterLoad(req, Len(s.timeSteps),
                         IF show THEN Len(s.timeSteps) - 1 ELSE sliderMax)
  IN /\ req.path = "upload" \/ serverDs # NoDataset
     /\ after.renderTimers <= MaxRenderTimers
     /\ show /\ ~layerReady => pollTimers < MaxPolls
     /\ inflight' = inflight (-) SetToBag({req})
     /\ Install(s)
     /\ serverDs' = key.ds
     /\ timelineInitialized' = (timelineInitialized \/ show)
     /\ pollTimers' = IF show /\ ~layerReady THEN pollTimers + 1 ELSE pollTimers
     /\ renderedIndex' = IF show THEN updateVisualization(0, s.flowData, layerReady)
                         ELSE renderedIndex
     /\ loading' = FALSE
     /\ currentTimeIndex' = after.index
     /\ sliderMax' = after.sliderMax
     /\ renderTimers' = after.renderTimers
     /\ last' = Rendering(Answered(IF req.path = "resample" THEN "resampleLoaded"
                                   ELSE "loaded",
                                   key, PlotAfterLoad(req, s).error),
                          IF show /\ layerReady THEN <<0>> ELSE <<>>)
     /\ plotted' = PlotAfterLoad(req, s).plotted
     /\ hitLayer' = (hitLayer \/ (show /\ layerReady))
     /\ UNCHANGED <<plotFlowpathId, plotDisplayed, fnVars, speedSelect, plotOptionVars>>
     /\ UNCHANGED <<isPlaying, animationFrame, pendingTicks, tickDelay,
                    timelineResampleInterval, layerReady, sought>>

\* playButton click while stopped: playAnimation(), whose first animate()
\* runs at once.
Play ==
  /\ timelineInitialized
  /\ ~isPlaying
  /\ pendingTicks # 1..MaxTimers
  /\ isPlaying' = TRUE
  /\ currentTimeIndex' = animateIndex(currentTimeIndex, Len(timeSteps))
  /\ renderedIndex' = updateVisualization(currentTimeIndex', flowData, layerReady)
  /\ animationFrame' = FreshTimer
  /\ pendingTicks' = pendingTicks \cup {FreshTimer}
  /\ tickDelay' = [id \in pendingTicks' |->
                     IF id = FreshTimer THEN frameDelay(speedSelect) ELSE tickDelay[id]]
  /\ sought' = NoIndex
  /\ last' = Rendering(Ran("play"), <<currentTimeIndex'>>)
  /\ UNCHANGED <<snapshotVars, timelineResampleInterval, timelineInitialized,
                 sliderMax, layerReady, pollTimers, renderTimers, inflight,
                 loading, serverDs, src>>
  /\ UNCHANGED <<plotVars, fnVars, speedSelect, plotOptionVars>>

\* playButton click while playing: pauseAnimation().
Pause ==
  /\ timelineInitialized
  /\ isPlaying
  /\ SetScheduler(pauseAnimation)
  /\ last' = Ran("pause")
  /\ UNCHANGED <<snapshotVars, currentTimeIndex, timelineResampleInterval,
                 timelineInitialized, sliderMax, layerReady, pollTimers,
                 renderTimers, renderedIndex, inflight, loading, serverDs, src, sought>>
  /\ UNCHANGED <<plotVars, fnVars, speedSelect, plotOptionVars>>

\* The scheduler state the timeSlider input handler leaves.
SeekKeepsPlaying ==
  [isPlaying |-> isPlaying, animationFrame |-> animationFrame,
   pendingTicks |-> pendingTicks]

timeSliderInput == PauseIfPlaying

\* The timeSlider input handler's calls of updateVisualization.
SeekSkipsRender(v) == <<>>

timeSliderRender(v) == <<v>>

\* timeSlider input: the slider offers 0..timeSlider.max.
Seek(v) ==
  /\ timelineInitialized
  /\ v \in 0..Max2(sliderMax, 0)
  /\ currentTimeIndex' = v
  /\ renderedIndex' = Paint(timeSliderRender(v), flowData, layerReady)
  /\ SetScheduler(timeSliderInput)
  /\ sought' = v
  /\ last' = Rendering(Ran("seek"), timeSliderRender(v))
  /\ UNCHANGED <<snapshotVars, timelineResampleInterval, timelineInitialized,
                 sliderMax, layerReady, pollTimers, renderTimers, inflight,
                 loading, serverDs, src>>
  /\ UNCHANGED <<plotVars, fnVars, speedSelect, plotOptionVars>>

\* The animate timer with handle id fires.
Tick(id) ==
  /\ id \in pendingTicks
  /\ IF ~isPlaying
     THEN /\ pendingTicks' = pendingTicks \ {id}
          /\ tickDelay' = [j \in pendingTicks' |-> tickDelay[j]]
          /\ UNCHANGED <<currentTimeIndex, renderedIndex, animationFrame>>
     ELSE LET rest == pendingTicks \ {id}
              new == CHOOSE n \in 1..MaxTimers :
                       n \notin rest /\ \A j \in 1..MaxTimers : j \notin rest => n <= j
          IN /\ currentTimeIndex' = animateIndex(currentTimeIndex, Len(timeSteps))
             /\ renderedIndex' = updateVisualization(currentTimeIndex', flowData, layerReady)
             /\ animationFrame' = new
             /\ pendingTicks' = rest \cup {new}
             /\ tickDelay' = [j \in pendingTicks' |->
                                IF j = new THEN tickDelay[id] ELSE tickDelay[j]]
  /\ last' = Rendering(Ran("tick"), IF isPlaying THEN <<currentTimeIndex'>> ELSE <<>>)
  /\ UNCHANGED <<snapshotVars, isPlaying, timelineResampleInterval,
                 timelineInitialized, sliderMax, layerReady, pollTimers,
                 renderTimers, inflight, loading, serverDs, src,
                 sought>>
  /\ UNCHANGED <<plotVars, fnVars, speedSelect, plotOptionVars>>

\* A retry that finds the layer missing and schedules no other.
PollGivesUp == pollTimers - 1

\* The pending retries after one fired without the layer:
\* `setTimeout(trySetupLayers, 100)` replaces it.
trySetupLayersRetry == pollTimers

\* A trySetupLayers retry fires: with the layer present setupLayerFilters
\* runs and ends in updateVisualization(0); otherwise it re-arms itself.
Poll ==
  /\ pollTimers > 0
  /\ IF layerReady
     THEN /\ pollTimers' = pollTimers - 1
          /\ renderedIndex' = updateVisualization(0, flowData, layerReady)
          /\ last' = Rendering(Ran("poll"), <<0>>)
          /\ hitLayer' = TRUE
     ELSE /\ pollTimers' = trySetupLayersRetry
          /\ UNCHANGED <<renderedIndex, last, hitLayer>>
  /\ UNCHANGED <<snapshotVars, playbackVars, timelineResampleInterval,
                 timelineInitialized, sliderMax, layerReady, renderTimers,
                 inflight, loading, serverDs, src, sought>>
  /\ UNCHANGED <<plotFlowpathId, plotDisplayed, plotted, fnVars, speedSelect, plotOptionVars>>

\* The deferred render of applyTimelineResample fires.
ResampleRender ==
  /\ renderTimers > 0
  /\ renderTimers' = renderTimers - 1
  /\ renderedIndex' = IF layerReady
                      THEN updateVisualization(currentTimeIndex, flowData, layerReady)
                      ELSE renderedIndex
  /\ last' = Rendering(Ran("resampleRender"),
                       IF layerReady THEN <<currentTimeIndex>> ELSE <<>>)
  /\ UNCHANGED <<snapshotVars, playbackVars, timelineResampleInterval,
                 timelineInitialized, sliderMax, layerReady, pollTimers, inflight,
                 loading, serverDs, src, sought>>
  /\ UNCHANGED <<plotVars, fnVars, speedSelect, plotOptionVars>>

Next ==
  \/ \E a \in BOOLEAN : MapLoad(a)
  \/ \E ds \in DatasetNames : UploadFolder(ds)
  \/ UploadRejected
  \/ \E k \in Intervals : SetResampleInterval(k)
  \/ \E req \in BagToSet(inflight) : LoadFailed(req)
  \/ \E req \in BagToSet(inflight) : LoadSucceeded(req)
  \/ Play
  \/ Pause
  \/ \E v \in 0..BaseLen : Seek(v)
  \/ \E id \in 1..MaxTimers : Tick(id)
  \/ Poll
  \/ ResampleRender

Spec == Init /\ [][Next]_vars

\* The program with its timers firing: a pending trySetupLayers retry and a
\* pending animate tick are not postponed forever.
SpecFair ==
  /\ Init
  /\ [][Next]_vars
  /\ WF_vars(Poll)
  /\ WF_vars(\E id \in 1..MaxTimers : Tick(id))

\* ------------------------------------------------------- playback speed
\* The user picks another option of speedSelect; no listener is attached.
SetSpeed(v) ==
  /\ v \in Speeds
  /\ v # speedSelect
  /\ speedSelect' = v
  /\ last' = Ran("speed")
  /\ UNCHANGED <<snapshotVars, playbackVars, timelineResampleInterval,
                 timelineInitialized, sliderMax, layerReady, pollTimers,
                 renderTimers, renderedIndex, inflight, loading, serverDs, src,
                 sought, plotVars, fnVars, plotOptionVars>>

NextSpeed ==
  \/ \E a \in BOOLEAN : MapLoad(a)
  \/ \E ds \in DatasetNames : UploadFolder(ds)
  \/ \E req \in BagToSet(inflight) : LoadFailed(req)
  \/ \E req \in BagToSet(inflight) : LoadSucceeded(req)
  \/ Poll
  \/ Play
  \/ Pause
  \/ \E v \in 0..BaseLen : Seek(v)
  \/ \E id \in 1..MaxTimers : Tick(id)
  \/ \E v \in Speeds : SetSpeed(v)

SpecSpeed == Init /\ [][NextSpeed]_vars

\* ------------------------------------------------- the time series plot
\* The ids of the features the hit layer's filter shows.
ClickableIds == {featureIds[i] : i \in 1..Len(featureIds)}

\* click on a feature of the hit layer: showTimeSeries(id).  When updatePlot
\* throws, the handler ends there and the container is not shown.
Click(id) ==
  LET r == updatePlot(id, timeSteps, flowData, velocityData, depthData)
  IN /\ hitLayer
     /\ id \in ClickableIds
     /\ plotFlowpathId' = id
     /\ plotted' = IF r.threw THEN plotted
                   ELSE plotSeries(r.series, plotResampleInterval)
     /\ plotDisplayed' = (plotDisplayed \/ ~r.threw)
     /\ last' = [Ran("click") EXCEPT !.threw = r.threw]
     /\ UNCHANGED <<snapshotVars, playbackVars, timelineResampleInterval,
                    timelineInitialized, sliderMax, layerReady, pollTimers,
                    renderTimers, renderedIndex, inflight, loading, serverDs,
                    src, sought, hitLayer, fnVars, speedSelect, plotOptionVars>>

\* closePlot click.
ClosePlot ==
  /\ plotDisplayed
  /\ plotDisplayed' = FALSE
  /\ plotFlowpathId' = NoFeature
  /\ last' = Ran("closePlot")
  /\ UNCHANGED <<snapshotVars, playbackVars, timelineResampleInterval,
                 timelineInitialized, sliderMax, layerReady, pollTimers,
                 renderTimers, renderedIndex, inflight, loading, serverDs,
                 src, sought, plotted, hitLayer, fnVars, speedSelect, plotOptionVars>>

\* The program with the plot in use and playback left stopped (updatePlot
\* and the plot's handlers read nothing of the scheduler).
NextInspect ==
  \/ \E a \in BOOLEAN : MapLoad(a)
  \/ \E ds \in DatasetNames : UploadFolder(ds)
  \/ \E k \in Intervals : SetResampleInterval(k)
  \/ \E req \in BagToSet(inflight) : LoadFailed(req)
  \/ \E req \in BagToSet(inflight) : LoadSucceeded(req)
  \/ Poll
  \/ ResampleRender
  \/ \E id \in ClickableIds : Click(id)
  \/ ClosePlot

SpecInspect == Init /\ [][NextInspect]_vars

\* ------------------------------------------------ plot options
ChartIntervals == 1..MaxChartInterval
\* The folders uploaded while the plot's resample control is exercised.
ChartDatasets == {"A", "L"}
VariableNames == {"flow", "velocity", "depth"}

\* updatePlot() called by a handler of the plot's controls: nothing is
\* plotted without a selected flowpath, nor when the extraction throws.
Replot(interval) ==
  IF plotFlowpathId = NoFeature THEN [plotted |-> plotted, threw |-> FALSE]
  ELSE LET r == updatePlot(plotFlowpathId, timeSteps, flowData, velocityData,
                           depthData)
       IN [plotted |-> IF r.threw THEN plotted ELSE plotSeries(r.series, interval),
           threw |-> r.threw]

\* Handlers that pause playback first, as applyTimelineResample does.
ChartResamplePauses == PauseIfPlaying

\* The scheduler as the resample handlers of the plot leave it: they call
\* nothing of playback.
chartResampleScheduler ==
  [isPlaying |-> isPlaying, animationFrame |-> animationFrame,
   pendingTicks |-> pendingTicks]

\* resampleSelect / customResample change with a value that parses to k > 0:
\* plotState.resampleInterval = k; updatePlot().
ChartResample(k) ==
  /\ k \in ChartIntervals
  /\ plotResampleInterval' = k
  /\ plotted' = Replot(k).plotted
  /\ SetScheduler(chartResampleScheduler)
  /\ last' = [Ran("chartResample") EXCEPT !.threw = Replot(k).threw]
  /\ UNCHANGED <<snapshotVars, currentTimeIndex, timelineResampleInterval,
                 timelineInitialized, sliderMax, layerReady, pollTimers,
                 renderTimers, renderedIndex, inflight, loading, serverDs, src,
                 sought, plotFlowpathId, plotDisplayed, hitLayer,
                 visibleVariables, speedSelect, fnVars>>

NextChart ==
  \/ \E a \in BOOLEAN : MapLoad(a)
  \/ \E ds \in ChartDatasets : UploadFolder(ds)
  \/ \E req \in BagToSet(inflight) : LoadFailed(req)
  \/ \E req \in BagToSet(inflight) : LoadSucceeded(req)
  \/ Poll
  \/ Play
  \/ Pause
  \/ \E id \in 1..MaxTimers : Tick(id)
  \/ \E id \in ClickableIds : Click(id)
  \/ ClosePlot
  \/ \E k \in ChartIntervals : ChartResample(k)

SpecChart == Init /\ [][NextChart]_vars

\* toggleFlow / toggleVelocity / toggleDepth click: the flag is flipped, then
\* updatePlot() runs.
Toggle(name) ==
  /\ visibleVariables' = [visibleVariables EXCEPT ![name] = ~@]
  /\ plotted' = Replot(plotResampleInterval).plotted
  /\ last' = [Ran("toggle") EXCEPT !.threw = Replot(plotResampleInterval).threw]
  /\ UNCHANGED <<snapshotVars, playbackVars, timelineResampleInterval,
                 timelineInitialized, sliderMax, layerReady, pollTimers,
                 renderTimers, renderedIndex, inflight, loading, serverDs, src,
                 sought, plotFlowpathId, plotDisplayed, hitLayer,
                 plotResampleInterval, speedSelect, fnVars>>

NextToggle ==
  \/ \E a \in BOOLEAN : MapLoad(a)
  \/ \E ds \in DatasetNames : UploadFolder(ds)
  \/ \E req \in BagToSet(inflight) : LoadFailed(req)
  \/ \E req \in BagToSet(inflight) : LoadSucceeded(req)
  \/ Poll
  \/ \E id \in ClickableIds : Click(id)
  \/ ClosePlot
  \/ \E name \in VariableNames : Toggle(name)

SpecToggle == Init /\ [][NextToggle]_vars

\* ------------------------------------------- custom resample input
\* The value of the digits ds read as a decimal numeral.
RECURSIVE DigitsValue(_)
DigitsValue(ds) ==
  IF ds = <<>> THEN 0
  ELSE 10 * DigitsValue(SubSeq(ds, 1, Len(ds) - 1))
       + (CHOOSE d \in 0..9 : DigitChars[d + 1] = ds[Len(ds)])

IsDigit(c) == \E d \in 1..Len(DigitChars) : DigitChars[d] = c

\* The longest prefix of s made of digits.
RECURSIVE DigitPrefix(_)
DigitPrefix(s) ==
  IF s # <<>> /\ IsDigit(Head(s)) THEN <<Head(s)>> \o DigitPrefix(Tail(s)) ELSE <<>>

RECURSIVE TrimStart(_)
TrimStart(s) == IF s # <<>> /\ Head(s) = " " THEN TrimStart(Tail(s)) ELSE s

\* parseInt(s): leading blanks, an optional sign, then the digits up to the
\* first other character; NaN without a digit.
parseInt(s) ==
  LET body == TrimStart(s)
      signed == body # <<>> /\ Head(body) \in {"+", "-"}
      digits == DigitPrefix(IF signed THEN Tail(body) ELSE body)
  IN IF digits = <<>> THEN NaN
     ELSE IF signed /\ Head(body) = "-" THEN 0 - DigitsValue(digits)
     ELSE DigitsValue(digits)

\* `if (value && value > 0)`
customAccepted(value) == value # NaN /\ value # 0 /\ value > 0

\* What is typed into timelineCustomResample.
CustomTexts ==
  { <<"2">>, <<"1">>, <<"0">>, <<"-", "2">>, <<>>, <<"x">>,
    <<"2", ".", "5">>, <<"1", "x">>, <<" ", "2">> }

\* timelineCustomResample change: an accepted value is stored and
\* applyTimelineResample() runs; otherwise the handler does nothing.
CustomResample(text) ==
  IF customAccepted(parseInt(text))
  THEN RequestResample(parseInt(text), "customRequest")
  ELSE /\ last' = Ran("customIgnored")
       /\ UNCHANGED <<snapshotVars, playbackVars, timelineResampleInterval,
                      timelineInitialized, sliderMax, layerReady, pollTimers,
                      renderTimers, renderedIndex, inflight, loading, serverDs,
                      src, sought, plotVars, fnVars, speedSelect, plotOptionVars>>

NextInterval ==
  \/ \E a \in BOOLEAN : MapLoad(a)
  \/ \E ds \in DatasetNames : UploadFolder(ds)
  \/ \E k \in Intervals : SetResampleInterval(k)
  \/ \E text \in CustomTexts : CustomResample(text)
  \/ \E req \in BagToSet(inflight) : LoadFailed(req)
  \/ \E req \in BagToSet(inflight) : LoadSucceeded(req)
  \/ Poll
  \/ ResampleRender

SpecInterval == Init /\ [][NextInterval]_vars

\* ------------------------------------------ Normalize applied on its own
\* The id strings handed to Normalize: every string of at most MaxIdLen
\* characters over an alphabet that holds the prefix's characters.
IdChars == {"w", "b", "-", "1"}
IdStrings == UNION {[1..n -> IdChars] : n \in 0..MaxIdLen}

InitNormalize ==
  /\ InitProgram
  /\ fnArg \in IdStrings
  /\ fnOut = <<>>

\* Normalize applied to the argument, then to its own result.
ApplyNormalize ==
  /\ Len(fnOut) < 2
  /\ fnOut' = Append(fnOut, Normalize(IF fnOut = <<>> THEN fnArg ELSE fnOut[Len(fnOut)]))
  /\ UNCHANGED <<programVars, fnArg>>

NextNormalize == ApplyNormalize

SpecNormalize == InitNormalize /\ [][NextNormalize]_vars

\* ---------------------------------------------------------------- claims
ResponseOps == {"loaded", "resampleLoaded"}
FailureOps == {"loadFailed", "resampleFailed"}

\* C1: after pause() no tick fires: whenever the scheduler is stopped no
\* animate timer is pending (the one scheduled before the pause was
\* cancelled), and no step taken while stopped is a tick.
C1_PauseCancelsTick ==
  /\ [](~isPlaying => pendingTicks = {})
  /\ [][~isPlaying => last'.op # "tick"]_vars

\* A pause has just run on a playing scheduler and left it stopped.
C1_Witness ==
  last.op = "pause" /\ ~isPlaying /\ animationFrame = NoTimer /\ currentTimeIndex > 0

\* C2: with a snapshot of at least one time step loaded, currentTimeIndex
\* is an index of the time axis.
C2_IndexInRange ==
  Len(timeSteps) >= 1 => currentTimeIndex \in 0..(Len(timeSteps) - 1)

\* C3: every tick (the timer's, and the first one play() runs) sets
\* currentTimeIndex to (currentTimeIndex + 1) mod numTimes.
C3_TickModulo ==
  [][(last'.op \in {"tick", "play"} /\ isPlaying' /\ Len(timeSteps) >= 1)
       => currentTimeIndex' = (currentTimeIndex + 1) % Len(timeSteps)]_vars

C5_SnapshotFromOneLoad ==
  /\ src.feat = src.time
  /\ src.time = src.tables
  /\ src.tables = src.range
  /\ src.feat # NoKey =>
       /\ featureIds = Payload(src.feat).geopackage.feature_ids
       /\ timeSteps = Payload(src.feat).netcdf.time_steps
       /\ DOMAIN flowData = 0..(Payload(src.feat).netcdf.num_times - 1)

\* A response replaced an earlier snapshot while a tick was pending on it.
C5_Witness ==
  /\ last.op = "loaded"
  /\ isPlaying
  /\ pendingTicks # {}
  /\ src.tables = last.resp
  /\ src.feat.ds = "B"

\* C6: while a load or resample request is pending, playback is stopped.
C6_StoppedWhileLoading ==
  inflight # EmptyBag => ~isPlaying

\* C7: with a valid snapshot loaded, a response that is structurally
\* inconsistent leaves every component of the snapshot as it was.
C7_MalformedKeepsSnapshot ==
  [][(src.feat # NoKey /\ WellFormed(Payload(src.feat))
        /\ last'.op \in ResponseOps /\ inflight' # inflight
        /\ ~WellFormed(Payload(last'.resp)))
       => UNCHANGED snapshotVars]_vars

\* C8: a response that is structurally inconsistent is reported through
\* showError.
C8_MalformedReported ==
  (last.op \in ResponseOps /\ ~WellFormed(Payload(last.resp))) => last.error

\* C9: a failed fetch is reported through showError and leaves the
\* snapshot and currentTimeIndex as they were.
C9_FailureLeavesState ==
  [][(last'.op \in FailureOps /\ inflight' # inflight)
       => /\ last'.error
          /\ UNCHANGED <<snapshotVars, currentTimeIndex>>]_vars

\* C10: every id of featureIds is in canonical form "wb-<rawId>".
C10_FeatureIdsCanonical ==
  \A i \in 1..Len(featureIds) : StartsWith(featureIds[i], WbPrefix)

\* C11: Normalize returns an id that starts with "wb-" unchanged and any
\* other id with "wb-" put in front of it, and applying it to its own
\* result changes nothing.
C11_NormalizeIdempotent ==
  LET hasPrefix == Len(fnArg) >= 3 /\ fnArg[1] = "w" /\ fnArg[2] = "b" /\ fnArg[3] = "-"
  IN /\ Len(fnOut) >= 1 =>
          fnOut[1] = IF hasPrefix THEN fnArg ELSE <<"w", "b", "-">> \o fnArg
     /\ Len(fnOut) = 2 => fnOut[2] = fnOut[1]

\* Normalize has been applied twice to an id without the prefix.
C11_Witness ==
  /\ Len(fnOut) = 2
  /\ Len(fnArg) = 3
  /\ fnArg[1] = "b"
  /\ Len(fnOut[2]) = 6

\* rawArray[t][f], 0 when the entry is missing or null (t from 0, f from 1).
MatrixEntry(m, t, f) ==
  IF t + 1 <= Len(m) /\ f <= Len(m[t + 1]) /\ m[t + 1][f] # NullEntry
  THEN m[t + 1][f]
  ELSE 0

\* The normalized id of column f of the series of response key.
SeriesKey(key, f) == Normalize(ToStr(Payload(key).netcdf.feature_ids[f]))

\* C12: after a load whose series ids are distinct once normalized, the
\* flow table holds at [t][normalize(seriesId[f])] the matrix value
\* flow[t][f], or 0 when that entry is missing or null, for every t below
\* numTimes and every column f; the velocity and depth tables likewise when
\* the variable is present.
C12_TablesHoldMatrix ==
  src.tables # NoKey =>
    LET nc == Payload(src.tables).netcdf
        cols == 1..nc.num_features
    IN (\A f, g \in cols : SeriesKey(src.tables, f) = SeriesKey(src.tables, g) => f = g)
       => \A t \in 0..(nc.num_times - 1), f \in cols :
            /\ flowData[t][SeriesKey(src.tables, f)] = MatrixEntry(nc.flow, t, f)
            /\ nc.hasVelocity =>
                 velocityData[t][SeriesKey(src.tables, f)] = MatrixEntry(nc.velocity, t, f)
            /\ nc.hasDepth =>
                 depthData[t][SeriesKey(src.tables, f)] = MatrixEntry(nc.depth, t, f)

\* A load with a numeric series id and a null matrix entry is installed.
C12_Witness ==
  /\ src.tables = [ds |-> "B", k |-> 1]
  /\ flowData[0][<<"w", "b", "-", "3">>] = 24
  /\ flowData[1][<<"w", "b", "-", "3">>] = 0

\* The flow values of the matrix of response key.
LoadValues(key) ==
  LET nc == Payload(key).netcdf
  IN {MatrixEntry(nc.flow, t, f) : t \in 0..(nc.num_times - 1), f \in 1..nc.num_features}

\* C13: after every load maxFlowValue is the largest flow value of that
\* load's matrix (0 when none is positive) and minFlowValue its smallest
\* strictly positive value (Infinity when there is none), whatever the
\* range of the load before.
C13_FlowRangeOfLoad ==
  src.range # NoKey =>
    LET vals == LoadValues(src.range)
        pos == {v \in vals : v > 0}
    IN /\ maxFlowValue = IF pos = {} THEN 0
                         ELSE CHOOSE v \in vals : \A w \in vals : w <= v
       /\ minFlowValue = IF pos = {} THEN Infinity
                         ELSE CHOOSE v \in pos : \A w \in pos : v <= w

\* A load with a narrower range has replaced a load with a wider one.
C13_Witness ==
  /\ last.op \in ResponseOps
  /\ src.range = [ds |-> "B", k |-> 1]
  /\ minFlowValue = 24
  /\ maxFlowValue = 24
  /\ currentTimeIndex = 2

\* C15: after a load, every table that holds data has exactly one slice
\* per time step of timeSteps and every slice exactly one entry per id of
\* featureIds.
C15_TablesCoverFeatureSet ==
  (src.tables # NoKey /\ WellFormed(Payload(src.tables))) =>
    LET ids == {featureIds[i] : i \in 1..Len(featureIds)}
        full(tb) == /\ DOMAIN tb = 0..(Len(timeSteps) - 1)
                    /\ \A t \in DOMAIN tb : DOMAIN tb[t] = ids
    IN /\ full(flowData)
       /\ velocityData # EmptyObject => full(velocityData)
       /\ depthData # EmptyObject => full(depthData)

C17_RenderWithoutLayer ==
  [][(~layerReady /\ last'.render # <<>>)
       => /\ renderedIndex' = renderedIndex
          /\ ~last'.error
          /\ ~last'.threw
          /\ UNCHANGED <<snapshotVars, plotVars>>]_vars

\* A seek has called the render update before the layer exists.
C17_Witness ==
  /\ ~layerReady
  /\ last.op = "seek"
  /\ last.render = <<1>>
  /\ renderedIndex = NoIndex

\* C20: play() itself leaves currentTimeIndex as it was (the first advance
\* comes with the first tick), so a pause before that tick finds the index
\* unchanged.
C20_PlayDoesNotAdvance ==
  [][last'.op = "play" => currentTimeIndex' = currentTimeIndex]_vars

\* get(table, t, id): the value, 0 when the slice or the entry is missing.
Get(tb, t, id) ==
  IF t \in DOMAIN tb /\ id \in DOMAIN tb[t] /\ tb[t][id] # NullEntry THEN tb[t][id] ELSE 0

\* The ids read: those of the loaded features and one that no table holds.
ProbeIds == ClickableIds \cup {<<"w", "b", "-", "9">>}

\* C14: no reader throws; the render update returns 0 for an id absent
\* from the slice it paints, and the hover read returns 0 for a time index
\* without slice, for an id absent from the slice and for an absent
\* variable.
C14_ReadsAreLenient ==
  /\ ~last.threw
  /\ \A t \in DOMAIN flowData, id \in ProbeIds :
        RenderRead(t, id, flowData) = Get(flowData, t, id)
  /\ \A t \in 0..BaseLen, id \in ProbeIds :
        LET h == HoverRead(t, id, flowData, velocityData, depthData)
        IN /\ h.flow = Get(flowData, t, id)
           /\ h.velocity = Get(velocityData, t, id)
           /\ h.depth = Get(depthData, t, id)

\* C18: the series extracted for the clicked id has one flow value per
\* time step, element t being get(flowData, t, id); the velocity and depth
\* arrays likewise when the variable is present, and are empty when it is
\* absent.
C18_SeriesAligned ==
  last.op = "click" =>
    LET aligned(arr, tb) ==
          /\ Len(arr) = Len(timeSteps)
          /\ \A t \in 0..(Len(timeSteps) - 1) : arr[t + 1] = Get(tb, t, plotFlowpathId)
    IN /\ ~last.threw
       /\ aligned(plotted.flow, flowData)
       /\ IF velocityData = EmptyObject THEN plotted.velocity = <<>>
          ELSE aligned(plotted.velocity, velocityData)
       /\ IF depthData = EmptyObject THEN plotted.depth = <<>>
          ELSE aligned(plotted.depth, depthData)

\* C19: while the plot is open on a feature, the flow series it shows has
\* one value per time step of the loaded time axis.
C19_PlotFollowsReload ==
  (plotDisplayed /\ plotFlowpathId # NoFeature) => Len(plotted.flow) = Len(timeSteps)

\* C21: while playing, every tick that animate schedules is given the delay
\* of the speed selected at that moment, with no pause and play in between,
\* and a change of speed leaves the delay of the pending tick as it was.
C21_SpeedOnNextTick ==
  /\ [][(isPlaying /\ last'.op = "tick")
          => tickDelay'[animationFrame'] = frameDelay(speedSelect)]_vars
  /\ [][speedSelect' # speedSelect => tickDelay' = tickDelay]_vars

\* --------------------------------------------------------- style mapper
\* JavaScript numbers in fixed point: a finite number x is the integer
\* round(x * Scale); NaN, PosInf and NegInf stand for the non-finite ones.
Scale == 10000

IsFinite(x) == x \notin {NaN, PosInf, NegInf}

\* Division rounded to the nearest integer, halves upwards (b # 0).
Quot(a, b) ==
  IF b > 0 THEN (2 * a + b) \div (2 * b) ELSE (2 * (0 - a) - b) \div (2 * (0 - b))

\* a - b
NumSub(a, b) ==
  IF a = NaN \/ b = NaN THEN NaN
  ELSE IF IsFinite(a) /\ IsFinite(b) THEN a - b
  ELSE IF IsFinite(a) THEN (IF b = PosInf THEN NegInf ELSE PosInf)
  ELSE IF a = b THEN NaN
  ELSE a

\* a / b for a, b in the same fixed-point unit; the quotient is in 1/Scale.
NumDiv(a, b) ==
  IF a = NaN \/ b = NaN THEN NaN
  ELSE IF ~IsFinite(a) /\ ~IsFinite(b) THEN NaN
  ELSE IF ~IsFinite(b) THEN 0
  ELSE IF ~IsFinite(a)
    THEN (IF b >= 0 THEN a ELSE IF a = PosInf THEN NegInf ELSE PosInf)
  ELSE IF b = 0
    THEN (IF a = 0 THEN NaN ELSE IF a > 0 THEN PosInf ELSE NegInf)
  ELSE Quot(a * Scale, b)

\* c + m * x for finite c and finite m # 0 (c and x in 1/Scale).
NumLin(c, m, x) ==
  IF x = NaN THEN NaN
  ELSE IF IsFinite(x) THEN c + m * x
  ELSE IF m > 0 THEN x
  ELSE IF x = PosInf THEN NegInf ELSE PosInf

\* The flow values of the model's datasets and of their block means.
FlowLevels == {0, 6, 12, 18, 24, 30, 36}

\* round(Scale * ln(n)) for n = 1..MaxFlow + 1.
MaxFlow == 36
LogTable ==
  <<
     0, 6931, 10986, 13863, 16094, 17918, 19459, 20794,
     21972, 23026, 23979, 24849, 25649, 26391, 27081, 27726,
     28332, 28904, 29444, 29957, 30445, 30910, 31355, 31781,
     32189, 32581, 32958, 33322, 33673, 34012, 34340, 34657,
     34965, 35264, 35553, 35835, 36109 >>

\* Math.log(v + 1), in 1/Scale.
LogPlus1(v) ==
  IF v = Infinity THEN PosInf
  ELSE IF v = -1 THEN NegInf
  ELSE IF v < -1 THEN NaN
  ELSE LogTable[v + 1]

\* (log(value+1) - log(min+1)) / (log(max+1) - log(min+1))
Normalized(value, min, max) ==
  NumDiv(NumSub(LogPlus1(value), LogPlus1(min)),
         NumSub(LogPlus1(max), LogPlus1(min)))

\* getWidthForFlow without its first line.
WidthUnguarded(value, min, max) ==
  NumLin(Scale, 7, Normalized(value, min, max))

\* getWidthForFlow(value) with minFlowValue = min, maxFlowValue = max; the
\* width is in 1/Scale.
WidthFor(value, min, max) ==
  IF value <= 0 THEN Scale
  ELSE NumLin(Scale, 7, Normalized(value, min, max))

getWidthForFlow(value) == WidthFor(value, minFlowValue, maxFlowValue)

NeutralColor == [fmt |-> "#94a3b8", r |-> 148, g |-> 163, b |-> 184]

\* The control colors; pos is in 1/Scale.
colors ==
  << [pos |-> 0, r |-> 59, g |-> 130, b |-> 246],
     [pos |-> 2500, r |-> 6, g |-> 182, b |-> 212],
     [pos |-> 5000, r |-> 16, g |-> 185, b |-> 129],
     [pos |-> 7500, r |-> 245, g |-> 158, b |-> 11],
     [pos |-> 10000, r |-> 239, g |-> 68, b |-> 68] >>

\* The first i with colors[i].pos <= normalized <= colors[i+1].pos, else the
\* first segment.
Segment(normalized) ==
  LET hits == {i \in 1..(Len(colors) - 1) :
                 /\ IsFinite(normalized)
                 /\ normalized >= colors[i].pos
                 /\ normalized <= colors[i + 1].pos}
  IN IF hits = {} THEN 1 ELSE CHOOSE i \in hits : \A j \in hits : i <= j

\* Math.round(c1 + (c2 - c1) * factor), factor = (normalized - pos1) / range.
Channel(c1, c2, normalized, pos1, range) ==
  IF normalized = NaN THEN NaN
  ELSE IF ~IsFinite(normalized)
    THEN (IF c2 = c1 THEN NaN
          ELSE IF c2 > c1 THEN normalized
          ELSE IF normalized = PosInf THEN NegInf ELSE PosInf)
  ELSE Quot(c1 * range + (c2 - c1) * (normalized - pos1), range)

\* getColorForFlow from `const normalized` on.
ColorScaled(value, min, max) ==
  LET normalized == Normalized(value, min, max)
      i == Segment(normalized)
      color1 == colors[i]
      color2 == colors[i + 1]
      range == color2.pos - color1.pos
  IN [fmt |-> "rgb",
      r |-> Channel(color1.r, color2.r, normalized, color1.pos, range),
      g |-> Channel(color1.g, color2.g, normalized, color1.pos, range),
      b |-> Channel(color1.b, color2.b, normalized, color1.pos, range)]

\* getColorForFlow without its first line.
ColorUnguarded(value, min, max) == ColorScaled(value, min, max)

ColorFor(value, min, max) ==
  IF value <= 0 THEN NeutralColor ELSE ColorScaled(value, min, max)

getColorForFlow(value) == ColorFor(value, minFlowValue, maxFlowValue)

\* The mapper applied on its own: a value and a range, then its style.
StyleValues == FlowLevels \cup {-6}
StyleMins == (FlowLevels \ {0}) \cup {Infinity}

InitStyle ==
  /\ InitProgram
  /\ fnArg \in [value : StyleValues, min : StyleMins, max : FlowLevels]
  /\ fnOut = <<>>

ApplyStyle ==
  /\ fnOut = <<>>
  /\ fnOut' = <<[color |-> ColorFor(fnArg.value, fnArg.min, fnArg.max),
                 width |-> WidthFor(fnArg.value, fnArg.min, fnArg.max)]>>
  /\ UNCHANGED <<programVars, fnArg>>

NextStyle == ApplyStyle

SpecStyle == InitStyle /\ [][NextStyle]_vars

\* C22: for every value <= 0 and every range the mapper returns the neutral
\* color and the width 1.
C22_NeutralStyle ==
  (fnOut # <<>> /\ "value" \in DOMAIN fnArg /\ fnArg.value <= 0)
    => fnOut[1] = [color |-> NeutralColor, width |-> Scale]

C22_Witness ==
  /\ fnOut # <<>>
  /\ "value" \in DOMAIN fnArg
  /\ fnArg.value < 0
  /\ fnArg.min = Infinity
  /\ fnOut[1].width = Scale

\* The values a render update reads for the features it paints.
RenderedValues ==
  {RenderRead(t, featureIds[i], flowData) :
     t \in DOMAIN flowData, i \in 1..Len(featureIds)}

LastControlColor ==
  [fmt |-> "rgb", r |-> colors[Len(colors)].r, g |-> colors[Len(colors)].g,
   b |-> colors[Len(colors)].b]

\* C23: with maxFlowValue = minFlowValue every positive value is styled as
\* normalized = 1.0: width 8 and the last control color, never not-a-number.
C23_DegenerateRange ==
  \A v \in RenderedValues :
    (maxFlowValue = minFlowValue /\ v > 0)
      => /\ getWidthForFlow(v) = 8 * Scale
         /\ getColorForFlow(v) = LastControlColor

\* C24: every value a render update reads is given a width in [1, 8], and
\* the width 1 when it is not positive.
C24_WidthInRange ==
  \A v \in RenderedValues :
    /\ getWidthForFlow(v) \in Scale..(8 * Scale)
    /\ v <= 0 => getWidthForFlow(v) = Scale

\* ------------------------------------------- resampleData on its own
RECURSIVE Gcd(_, _)
Gcd(a, b) == IF b = 0 THEN a ELSE Gcd(b, a % b)
RECURSIVE LcmUpTo(_)
LcmUpTo(n) == IF n <= 1 THEN 1 ELSE (LcmUpTo(n - 1) * n) \div Gcd(LcmUpTo(n - 1), n)

\* Series whose block sums are divisible by every block length.
SeriesUnit == LcmUpTo(MaxSeriesLen)
SeriesValues == {0, SeriesUnit, 3 * SeriesUnit}
SeriesInputs == UNION {[1..n -> SeriesValues] : n \in 0..MaxSeriesLen}

NotCalled == [pc |-> "call", i |-> 0, resampled |-> <<>>]

InitResample ==
  /\ InitProgram
  /\ fnArg \in [data : SeriesInputs, interval : 1..MaxChartInterval]
  /\ fnOut = NotCalled

CallResample ==
  /\ fnOut.pc = "call"
  /\ fnOut' = resampleStart(fnArg.data, fnArg.interval)
  /\ UNCHANGED <<programVars, fnArg>>

LoopResample ==
  /\ fnOut.pc = "loop"
  /\ fnOut' = resampleStep(fnArg.data, fnArg.interval, fnOut)
  /\ UNCHANGED <<programVars, fnArg>>

NextResample == CallResample \/ LoopResample

\* The call runs on: no other handler interleaves with it.
SpecResample ==
  InitResample /\ [][NextResample]_vars /\ WF_vars(NextResample)

\* C25: resampleData(series, 1) returns the series it was given.
C25_IntervalOneIdentity ==
  (fnOut.pc = "done" /\ fnArg.interval = 1) => fnOut.resampled = fnArg.data

C25_Witness ==
  /\ fnOut.pc = "done"
  /\ fnArg.interval = 1
  /\ Len(fnArg.data) = MaxSeriesLen
  /\ fnArg.data[1] # fnArg.data[2]

\* C26: for every interval k >= 1 and every input of length n the call
\* returns, and what it returns has ceil(n/k) elements (none for n = 0).
C26_LengthAndTermination ==
  /\ [](fnOut.pc = "done"
          => Len(fnOut.resampled) = CeilDiv(Len(fnArg.data), fnArg.interval))
  /\ <>(fnOut.pc = "done")

C26_Witness ==
  /\ fnOut.pc = "done"
  /\ fnArg.interval = 3
  /\ Len(fnArg.data) = 4
  /\ Len(fnOut.resampled) = 2

\* Sum of data[lo+1 .. hi+1] (0-based lo..hi).
RangeSum(data, lo, hi) ==
  SumSeq([x \in 1..(hi - lo + 1) |-> data[lo + x]])

\* C27: for an interval k > 1, element j of the result is the arithmetic
\* mean of series[j*k .. min(n, (j+1)*k) - 1], the final block over its own
\* length.
C27_BlockMeans ==
  (fnOut.pc = "done" /\ fnArg.interval > 1) =>
    \A j \in 0..(Len(fnOut.resampled) - 1) :
      LET k == fnArg.interval
          lo == j * k
          hi == Min2(Len(fnArg.data), (j + 1) * k) - 1
      IN /\ lo <= hi
         /\ fnOut.resampled[j + 1] * (hi - lo + 1) = RangeSum(fnArg.data, lo, hi)

C27_Witness ==
  /\ fnOut.pc = "done"
  /\ fnArg.interval = 2
  /\ fnArg.data = <<SeriesUnit, 3 * SeriesUnit, 3 * SeriesUnit>>
  /\ fnOut.resampled = <<2 * SeriesUnit, 3 * SeriesUnit>>

\* C28: a change of the plot's resample interval, with the re-plot it
\* triggers, leaves the time axis, the tables, the flow range, the current
\* index and the play state as they were.
C28_ChartResampleFrame ==
  [][last'.op = "chartResample"
       => UNCHANGED <<timeSteps, flowData, velocityData, depthData,
                      maxFlowValue, minFlowValue, currentTimeIndex, isPlaying>>]_vars

C28_Witness ==
  /\ last.op = "chartResample"
  /\ isPlaying
  /\ plotResampleInterval = 2
  /\ Len(timeSteps) = BaseLen
  /\ Len(plotted.flow) = CeilDiv(BaseLen, 2)

\* C29: a toggle flips the visibility of its variable and changes nothing
\* else; the series on the plot are the ones extracted before, not read
\* again from the tables.
C29_ToggleFlipsOnly ==
  [][last'.op = "toggle"
       => /\ \E name \in VariableNames :
               visibleVariables' = [visibleVariables EXCEPT ![name] = ~@]
          /\ plotted' = plotted
          /\ UNCHANGED <<snapshotVars, playbackVars, plotFlowpathId,
                         plotDisplayed, plotResampleInterval>>]_vars

\* The text is a numeral of a positive integer: digits only, not all zero.
IsPositiveInteger(text) ==
  /\ text # <<>>
  /\ \A i \in 1..Len(text) : IsDigit(text[i])
  /\ DigitsValue(text) > 0

\* C30: every load request carries an integer interval >= 1, and a custom
\* input that is not a positive integer changes neither the interval nor the
\* requests in flight.
C30_IntervalSent ==
  /\ [](\A req \in BagToSet(inflight) : req.k \in Nat /\ req.k >= 1)
  /\ [][\A text \in CustomTexts :
          (CustomResample(text) /\ ~IsPositiveInteger(text))
            => UNCHANGED <<timelineResampleInterval, inflight>>]_vars

\* ------------------------------------------- loads without positive flow
\* The folders uploaded where the empty flow range is looked at.
DryDatasets == {"A", "Z"}

NextDry ==
  \/ \E a \in BOOLEAN : MapLoad(a)
  \/ \E ds \in DryDatasets : UploadFolder(ds)
  \/ \E k \in Intervals : SetResampleInterval(k)
  \/ \E req \in BagToSet(inflight) : LoadFailed(req)
  \/ \E req \in BagToSet(inflight) : LoadSucceeded(req)
  \/ \E v \in 0..BaseLen : Seek(v)
  \/ Poll
  \/ ResampleRender

SpecDry == Init /\ [][NextDry]_vars

\* C31: with the flow range {min: Infinity, max: 0} every value the mapper
\* is given by a render gets the neutral color and the width 1.
C31_EmptyRangeNeutral ==
  (minFlowValue = Infinity /\ maxFlowValue = 0) =>
    \A v \in RenderedValues :
      /\ getColorForFlow(v) = NeutralColor
      /\ getWidthForFlow(v) = Scale

C31_Witness ==
  /\ minFlowValue = Infinity
  /\ maxFlowValue = 0
  /\ src.range.ds = "Z"
  /\ layerReady
  /\ renderedIndex \in DOMAIN flowData
  /\ last.render # <<>>
  /\ RenderedValues = {0}

\* ------------------------------------------------- paint expressions
\* A color expression that has a case only for the ids the slice holds.
ColorOfPresent(ids, currentFlowData) ==
  LET present == SelectSeq(ids, LAMBDA id : id \in DOMAIN currentFlowData)
  IN [i \in 1..Len(present) |->
        [id |-> present[i],
         value |-> getColorForFlow(Lookup(currentFlowData, present[i]))]]

\* The cases pushed on colorExpression by the loop over featureIds.
colorExpression(ids, currentFlowData) ==
  [i \in 1..Len(ids) |->
     [id |-> ids[i], value |-> getColorForFlow(Lookup(currentFlowData, ids[i]))]]

\* The cases pushed on widthExpression by the same loop.
widthExpression(ids, currentFlowData) ==
  [i \in 1..Len(ids) |->
     [id |-> ids[i], value |-> getWidthForFlow(Lookup(currentFlowData, ids[i]))]]

\* The calls of map.setPaintProperty made by updateVisualization(timeIndex).
setPaintCalls(timeIndex, ids, fd, ready) ==
  IF ~ready \/ timeIndex \notin DOMAIN fd THEN <<>>
  ELSE << [property |-> "line-color", cases |-> colorExpression(ids, fd[timeIndex])],
          [property |-> "line-width", cases |-> widthExpression(ids, fd[timeIndex])] >>

\* The time index of the last updateVisualization call of the last handler.
LastRenderCall == last.render[Len(last.render)]

\* C32: a render update for index t sets the line color once and the line
\* width once, each with one case per feature of featureIds, in that order,
\* styled for get(flowData, t, id); a feature without entry at t is styled
\* neutral.
C32_RenderPerFeature ==
  (last.render # <<>> /\ layerReady /\ LastRenderCall \in DOMAIN flowData) =>
    LET t == LastRenderCall
        calls == setPaintCalls(t, featureIds, flowData, layerReady)
    IN /\ Len(calls) = 2
       /\ calls[1].property = "line-color"
       /\ calls[2].property = "line-width"
       /\ Len(calls[1].cases) = Len(featureIds)
       /\ Len(calls[2].cases) = Len(featureIds)
       /\ \A i \in 1..Len(featureIds) :
            LET id == featureIds[i]
                v == Get(flowData, t, id)
            IN /\ calls[1].cases[i] =
                    [id |-> id, value |-> ColorFor(v, minFlowValue, maxFlowValue)]
               /\ calls[2].cases[i] =
                    [id |-> id, value |-> WidthFor(v, minFlowValue, maxFlowValue)]
               /\ id \notin DOMAIN flowData[t]
                    => /\ calls[1].cases[i].value = NeutralColor
                       /\ calls[2].cases[i].value = Scale

C32_Witness ==
  /\ last.render # <<>>
  /\ layerReady
  /\ LastRenderCall \in DOMAIN flowData
  /\ Len(featureIds) = 2
  /\ featureIds[1] \notin DOMAIN flowData[LastRenderCall]
  /\ Get(flowData, LastRenderCall, featureIds[2]) > 0

\* C33: once a snapshot was loaded without the layer and the layer exists,
\* a retry eventually sets the layers up and pushes a render of the loaded
\* snapshot, leaving no retry scheduled; none is scheduled afterwards.
C33_PollRendersWhenReady ==
  /\ (timelineInitialized /\ ~hitLayer /\ layerReady)
       ~> (/\ last.op = "poll"
           /\ last.render = <<0>>
           /\ renderedIndex = 0
           /\ 0 \in DOMAIN flowData
           /\ hitLayer
           /\ pollTimers = 0)
  /\ [][(layerReady /\ pollTimers = 0) => pollTimers' = 0]_vars

C33_Witness ==
  /\ last.op = "poll"
  /\ last.render = <<0>>
  /\ renderedIndex = 0
  /\ hitLayer
  /\ pollTimers = 0
  /\ src.tables.ds = "A"

\* C35: while playing on a time axis of at least one step, with the tick
\* timer firing, every index of the axis is reached again and again unless
\* playback is stopped (pause, seek, resample request) or a load replaces
\* the snapshot.
C35_PlaybackLoops ==
  \A j \in 0..(BaseLen - 1) :
    (isPlaying /\ j < Len(timeSteps))
      ~> (currentTimeIndex = j \/ ~isPlaying \/ last.op \in ResponseOps)

C35_Witness ==
  /\ isPlaying
  /\ last.op = "tick"
  /\ Len(timeSteps) = BaseLen
  /\ currentTimeIndex = 0
  /\ renderedIndex = 0

\* C36: at most one animate timer is pending at any time, and one is
\* pending only while the scheduler is playing.
C36_SingleTickLoop ==
  /\ Cardinality(pendingTicks) <= 1
  /\ (pendingTicks # {} => isPlaying /\ pendingTicks = {animationFrame})

\* Playback started again on a resampled time axis.
C36_Witness ==
  /\ isPlaying
  /\ Cardinality(pendingTicks) = 1
  /\ last.op = "play"
  /\ sliderMax < BaseLen - 1
  /\ timelineResampleInterval > 1

\* No request is in flight and no timer is pending.
Quiescent ==
  /\ inflight = EmptyBag
  /\ pendingTicks = {}
  /\ pollTimers = 0
  /\ renderTimers = 0

\* C37: with a snapshot loaded and set up on a ready layer, and nothing
\* pending, the index last painted on the map is currentTimeIndex.
C37_RenderedIsCurrent ==
  (/\ Quiescent
   /\ layerReady
   /\ hitLayer
   /\ Len(timeSteps) > 0
   /\ currentTimeIndex \in DOMAIN flowData)
    => renderedIndex = currentTimeIndex

\* ------------------------------------------ the index restore on its own
\* applyTimelineResample's restore applied to an index pIdx held on an axis
\* of pLen steps when the resample was requested and an answer of len steps.
RestoreInputs ==
  {a \in [pIdx : 0..MaxAxisLen, pLen : 1..MaxAxisLen, len : 1..MaxAxisLen] :
     a.pIdx <= a.pLen}

InitRestore ==
  /\ InitProgram
  /\ fnArg \in RestoreInputs
  /\ fnOut = [pc |-> "call", index |-> NoIndex]

ApplyRestore ==
  /\ fnOut.pc = "call"
  /\ fnOut' = [pc |-> "done",
               index |-> RestoreIndex(fnArg.pIdx, fnArg.pLen, fnArg.len)]
  /\ UNCHANGED <<programVars, fnArg>>

SpecRestore == InitRestore /\ [][ApplyRestore]_vars

\* C38: the index restored after a resample from pLen > 0 steps to len > 0
\* steps is min(len - 1, floor(pIdx * len / pLen)).
C38_RestoredIndex ==
  fnOut.pc = "done"
    => fnOut.index = Min2(fnArg.len - 1, (fnArg.pIdx * fnArg.len) \div fnArg.pLen)

\* ----------------------------------------------- overlapping requests
\* Loads and resamples requested while an earlier request is still awaiting
\* its response; the responses arrive in any order.
NextRace ==
  \/ MapLoad(FALSE)
  \/ \E ds \in {"A", "B"} : UploadFolderUpTo(ds, MaxRaceInflight)
  \/ \E k \in 1..MaxInterval :
       RequestResampleUpTo(k, "resampleRequest", MaxRaceInflight)
  \/ \E req \in BagToSet(inflight) : LoadFailed(req)
  \/ \E req \in BagToSet(inflight) : LoadSucceeded(req)
  \/ Poll
  \/ ResampleRender

SpecRace == Init /\ [][NextRace]_vars

RequestOps == {"mapLoad", "upload", "resampleRequest", "customRequest"}

\* C34: a request made while another is in flight is issued beside it and
\* leaves the snapshot alone; every successful response installs its own
\* data when it arrives, and nothing else replaces the snapshot, so the
\* snapshot is that of the response that arrived last.
C34_LastResponseWins ==
  /\ [][(last'.op \in RequestOps /\ last'.op # "mapLoad")
          => /\ BagCardinality(inflight') = BagCardinality(inflight) + 1
             /\ UNCHANGED snapshotVars]_vars
  /\ [][(last'.op \in ResponseOps /\ inflight' # inflight)
          => /\ src'.tables = last'.resp
             /\ featureIds' = Payload(last'.resp).geopackage.feature_ids
             /\ timeSteps' = Payload(last'.resp).netcdf.time_steps]_vars
  /\ [][snapshotVars' # snapshotVars
          => (last'.op \in ResponseOps /\ inflight' # inflight)]_vars

\* The response to the earlier of two overlapping resample requests arrived
\* last and its data is what is loaded.
C34_Witness ==
  /\ inflight = EmptyBag
  /\ last.op = "resampleLoaded"
  /\ last.resp = [ds |-> "A", k |-> 2]
  /\ src.tables = last.resp
  /\ timelineResampleInterval = 1
  /\ Len(timeSteps) = CeilDiv(BaseLen, 2)

\* C39: the loading indicator is active exactly while a load or resample
\* request is in flight.
C39_LoadingWhileInflight ==
  loading <=> (inflight # EmptyBag)

\* C40: once no request is in flight, the snapshot a resample response has
\* just installed is the one produced for timelineResampleInterval, the
\* interval selected last.
C40_SnapshotOfSelectedInterval ==
  (inflight = EmptyBag /\ last.op = "resampleLoaded")
    => /\ src.tables = last.resp
       /\ src.tables.k = timelineResampleInterval

====
